---- MODULE Spec2Model ----
(***************************************************************************)
(* Model of auto_qc.py: a Prefect flow, run on an interval schedule, that  *)
(* lists the run directories below a sequencer output directory, filters   *)
(* out those already carrying a RoutineQC directory and builds a nextflow  *)
(* command line for each remaining one.                                    *)
(*                                                                         *)
(* Line 26 of the source lacks the closing parenthesis of os.path.exists;  *)
(* the condition is read with that parenthesis closed before the colon.    *)
(* uuid.uuid4() is idealised as a source that never returns a value twice. *)
(***************************************************************************)
EXTENDS Integers, Sequences, FiniteSets, TLC

VARIABLES
    dirs,                \* paths that are directories
    files,               \* paths that are plain files
    pc,                  \* where the scheduler process is in its flow run
    subdirs,             \* result of list_subdirectories
    subdirs_to_analyze,  \* result of filter_analyzed_runs
    idx,                 \* next element build_workflow_command.map handles
    cmd,                 \* results of build_workflow_command.map
    uuid_calls,          \* number of uuid.uuid4() calls so far
    dispatched,          \* commands a ShellTask has executed
    invocations,         \* history: every command built, oldest first, with
                         \*   the words a shell splits it into (argv)
    built,               \* history: run directories built in this flow run
    analyzed_at_filter,  \* history: entries with RoutineQC when the filter ran
    touched,             \* history: filesystem changed since this run's listing
    restarted,           \* history: the scheduler process was restarted
    other,               \* a second scheduler process watching the same
                         \*   directory: its pc, subdirs, subdirs_to_analyze,
                         \*   idx and cmd
    probe                \* a run ID handed to the classification on its own

vars == <<dirs, files, pc, subdirs, subdirs_to_analyze, idx, cmd, uuid_calls,
          dispatched, invocations, built, analyzed_at_filter, touched, restarted,
          other, probe>>

-----------------------------------------------------------------------------
(* Bounds *)

MaxEntries == 2
MaxUuidCalls == 3

(* The positional argument sequencer_output_dir. *)
parent_dir == "/seq"

(* Names the sequencer may give to run directories. *)
EntryNames ==
    { "201203_M00325_0123_000000000-A1B2C",
      "201203_VH00123_0045_AB12CD345",
      "randomfolder" }

(* Names of plain files that may appear in the watched directory. *)
FileNames == { "SampleSheet.csv" }

-----------------------------------------------------------------------------
(* Strings *)

CharAt(s, i) == SubSeq(s, i, i)

Range(s) == { s[i] : i \in 1..Len(s) }

Digit == {"0", "1", "2", "3", "4", "5", "6", "7", "8", "9"}

Upper == {"A", "B", "C", "D", "E", "F", "G", "H", "I", "J", "K", "L", "M",
          "N", "O", "P", "Q", "R", "S", "T", "U", "V", "W", "X", "Y", "Z"}

Whitespace == {" "}

(* os.path.join(a, b) for POSIX paths. *)
join(a, b) ==
    IF Len(b) > 0 /\ CharAt(b, 1) = "/" THEN b
    ELSE IF Len(a) = 0 \/ CharAt(a, Len(a)) = "/" THEN a \o b
    ELSE a \o "/" \o b

(* Position of the last "/" in p, 0 when there is none. *)
RECURSIVE LastSlash(_, _)
LastSlash(p, i) ==
    IF i = 0 THEN 0
    ELSE IF CharAt(p, i) = "/" THEN i
    ELSE LastSlash(p, i - 1)

(* os.path.dirname(p) *)
dirname(p) ==
    LET i == LastSlash(p, Len(p))
    IN IF i <= 1 THEN SubSeq(p, 1, i) ELSE SubSeq(p, 1, i - 1)

(* os.path.basename(p) *)
basename(p) == SubSeq(p, LastSlash(p, Len(p)) + 1, Len(p))

(* str.split(): the maximal runs of non-whitespace characters of s. *)
Split(s) ==
    LET n == Len(s)
        IsWs(i) == CharAt(s, i) \in Whitespace
        starts == { i \in 1..n : ~ IsWs(i) /\ (i = 1 \/ IsWs(i - 1)) }
        ends == { e \in 1..n : ~ IsWs(e) /\ (e = n \/ IsWs(e + 1)) }
        Start(k) == CHOOSE i \in starts : Cardinality({ j \in starts : j < i }) = k - 1
        End(k) == CHOOSE e \in ends : Cardinality({ j \in ends : j < e }) = k - 1
    IN [ k \in 1..Cardinality(starts) |-> SubSeq(s, Start(k), End(k)) ]

-----------------------------------------------------------------------------
(* Regular expressions: a pattern is a sequence of items, each a character *)
(* class with a minimum and a maximum repeat count (Unbounded for +).      *)

Unbounded == -1

Item(class, lo, hi) == [class |-> class, lo |-> lo, hi |-> hi]

Lit(c) == Item({c}, 1, 1)

(* Mutant: any one or two letters where the MiSeq pattern has its M. *)
miseq_regex_AnyLetter ==
    << Item(Digit, 6, 6), Lit("_"), Item(Upper, 1, 2), Item(Digit, 5, 5), Lit("_"),
       Item(Digit, 1, Unbounded), Lit("_"), Item(Digit, 9, 9), Lit("-"),
       Item(Upper \cup Digit, 5, 5) >>

(* '\d{6}_M\d{5}_\d+_\d{9}-[A-Z0-9]{5}' *)
miseq_regex ==
    << Item(Digit, 6, 6), Lit("_"), Lit("M"), Item(Digit, 5, 5), Lit("_"),
       Item(Digit, 1, Unbounded), Lit("_"), Item(Digit, 9, 9), Lit("-"),
       Item(Upper \cup Digit, 5, 5) >>

(* '\d{6}_VH\d{5}_\d+_[A-Z0-9]{9}' *)
nextseq_regex ==
    << Item(Digit, 6, 6), Lit("_"), Lit("V"), Lit("H"), Item(Digit, 5, 5),
       Lit("_"), Item(Digit, 1, Unbounded), Lit("_"),
       Item(Upper \cup Digit, 9, 9) >>

(* Do items k.. of pat match s from position i on (backtracking)? *)
RECURSIVE MatchFrom(_, _, _, _)
MatchFrom(pat, k, s, i) ==
    IF k > Len(pat) THEN TRUE
    ELSE LET it == pat[k]
             rest == Len(s) - i + 1
             hi == IF it.hi = Unbounded \/ it.hi > rest THEN rest ELSE it.hi
         IN \E n \in it.lo..hi :
               /\ \A j \in i..(i + n - 1) : CharAt(s, j) \in it.class
               /\ MatchFrom(pat, k + 1, s, i + n)

(* re.match(pattern, string): a match anchored at the start only. *)
re_match(pat, s) == MatchFrom(pat, 1, s, 1)

-----------------------------------------------------------------------------
(* Python values that get formatted into the command line. *)

None == [type |-> "NoneType"]

Str(s) == [type |-> "str", value |-> s]

(* format() of a value inside an f-string. *)
format(v) == IF v.type = "NoneType" THEN "None" ELSE v.value

(* str(uuid.uuid4()) for the n-th call: uuid4 never returns a value twice. *)
uuid4(n) ==
    IF n < 10 THEN "00000000-0000-4000-8000-00000000000" \o ToString(n)
    ELSE "00000000-0000-4000-8000-0000000000" \o ToString(n)

-----------------------------------------------------------------------------
(* Filesystem *)

(* Every path of the model lies below parent_dir; while that directory is *)
(* missing or unreadable nothing below it can be seen.                    *)
available == parent_dir \in dirs

exists(p) == available /\ p \in dirs \cup files

is_dir(p) == available /\ p \in dirs

(* Mutant: the listing descends into the subdirectories, as os.walk does. *)
RECURSIVE Below(_, _)
Below(d, p) == p # "/" /\ p # "" /\ (dirname(p) = d \/ Below(d, dirname(p)))

scandir_Recursive(d) == { p \in dirs \cup files : Below(d, p) }

(* os.scandir(d): paths of the immediate children of d. *)
scandir(d) == { p \in dirs \cup files : dirname(p) = d }

(* All orders in which a directory listing may come back. *)
Orderings(S) ==
    { s \in [1..Cardinality(S) -> S] : \A i, j \in DOMAIN s : i # j => s[i] # s[j] }

-----------------------------------------------------------------------------
(* Tasks *)

(* Mutant: the check of the loop body without the completion marker. *)
IsUploadedRun_AnyDir(f) == is_dir(f)

(* list_subdirectories: the entries that pass the check of the loop body. *)
IsUploadedRun(f) == is_dir(f) /\ exists(join(f, "upload_complete.json"))

(* Mutant: every entry is appended twice. *)
list_subdirectories_Twice(d) ==
    { s \o s : s \in Orderings({ f \in scandir(d) : IsUploadedRun(f) }) }

list_subdirectories(d) == Orderings({ f \in scandir(d) : IsUploadedRun(f) })

instrument_type(run_id) ==
    IF re_match(miseq_regex, run_id) THEN Str("miseq")
    ELSE IF re_match(nextseq_regex, run_id) THEN Str("nextseq")
    ELSE None

pipeline_name == "BCCDC-PHL/routine-qc"

pipeline_version == "v0.3.2"

nextflow_base_cmd == "nextflow run"

(* Mutant: the pipeline is told to write into another directory. *)
outdir_Results(run_dir) == join(run_dir, "results")

outdir(run_dir) == join(run_dir, "RoutineQC")

work_dir(run_dir, work_dir_uuid) == join(run_dir, "work-" \o work_dir_uuid)

(* Mutant: the output directory is placed below the work directory. *)
workflow_cmd_OutdirInWork(run_dir, work_dir_uuid) ==
    nextflow_base_cmd \o " " \o pipeline_name
        \o " -profile conda --cache ~/.conda/envs -r " \o pipeline_version
        \o "--run_dir " \o run_dir
        \o " --instrument_type " \o format(instrument_type(basename(run_dir)))
        \o " -work " \o work_dir(run_dir, work_dir_uuid)
        \o " --outdir " \o outdir(work_dir(run_dir, work_dir_uuid))

(* The two adjacent f-string literals are concatenated as written. *)
workflow_cmd(run_dir, work_dir_uuid) ==
    nextflow_base_cmd \o " " \o pipeline_name
        \o " -profile conda --cache ~/.conda/envs -r " \o pipeline_version
        \o "--run_dir " \o run_dir
        \o " --instrument_type " \o format(instrument_type(basename(run_dir)))
        \o " -work " \o work_dir(run_dir, work_dir_uuid)
        \o " --outdir " \o outdir(run_dir)

(* Mutant: the UUID is drawn once, when the module is loaded. *)
build_workflow_command_OneUuid(run_dir, n) == workflow_cmd(run_dir, uuid4(0))

build_workflow_command(run_dir, n) == workflow_cmd(run_dir, uuid4(n))

(* Mutant: the RoutineQC check is left out. *)
filter_func_KeepAll(x) == TRUE

(* Mutant: runs a command was built for earlier are remembered and skipped. *)
filter_func_Remember(x) ==
    /\ ~ exists(join(x, "RoutineQC"))
    /\ \A i \in 1..Len(invocations) : invocations[i].run_dir # x

filter_func(x) == ~ exists(join(x, "RoutineQC"))

(* Mutant: the first element of the input is lost. *)
filter_analyzed_runs_DropFirst(xs) ==
    IF xs = <<>> THEN <<>> ELSE SelectSeq(Tail(xs), filter_func)

(* Mutant: a run is retried only once its last command is two builds old. *)
filter_analyzed_runs_Backoff(xs) ==
    LET Due(x) ==
            /\ filter_func(x)
            /\ \A i \in 1..Len(invocations) :
                  invocations[i].run_dir = x => i + 2 <= Len(invocations)
    IN SelectSeq(xs, Due)

filter_analyzed_runs(xs) == SelectSeq(xs, filter_func)

(* build_workflow_task wraps a command in a ShellTask without running it. *)
build_workflow_task(c) == [task |-> "ShellTask", command |-> c]

(* The tasks build_flow adds to the flow, in dependency order. *)
flow_tasks == <<"list_subdirectories", "filter_analyzed_runs", "build_workflow_command">>

-----------------------------------------------------------------------------
(* A scheduler process that has not started a flow run. *)
OtherIdle ==
    [pc |-> "idle", subdirs |-> <<>>, subdirs_to_analyze |-> <<>>, idx |-> 1,
     cmd |-> <<>>]

(* No run ID is being classified on its own. *)
NoProbe == [stage |-> "none"]

Init ==
    /\ dirs = {parent_dir}
    /\ files = {}
    /\ pc = "idle"
    /\ subdirs = <<>>
    /\ subdirs_to_analyze = <<>>
    /\ idx = 1
    /\ cmd = <<>>
    /\ uuid_calls = 0
    /\ dispatched = {}
    /\ invocations = <<>>
    /\ built = <<>>
    /\ analyzed_at_filter = {}
    /\ touched = FALSE
    /\ restarted = FALSE
    /\ other = OtherIdle
    /\ probe = NoProbe

-----------------------------------------------------------------------------
(* The environment: the sequencer and the nextflow pipeline. *)

RunDirs == { join(parent_dir, n) : n \in EntryNames } \cap dirs

(* The sequencer starts writing a run below the watched directory. *)
SequencerMkdir ==
    \E n \in EntryNames :
        /\ join(parent_dir, n) \notin dirs
        /\ Cardinality(RunDirs) < MaxEntries
        /\ dirs' = dirs \cup {join(parent_dir, n)}
        /\ touched' = TRUE
        /\ UNCHANGED <<other, probe, files, pc, subdirs, subdirs_to_analyze, idx, cmd, uuid_calls,
                       dispatched, invocations, built, analyzed_at_filter, restarted>>

(* A plain file appears in the watched directory. *)
CreateFile ==
    \E n \in FileNames :
        /\ join(parent_dir, n) \notin files
        /\ files' = files \cup {join(parent_dir, n)}
        /\ touched' = TRUE
        /\ UNCHANGED <<other, probe, dirs, pc, subdirs, subdirs_to_analyze, idx, cmd, uuid_calls,
                       dispatched, invocations, built, analyzed_at_filter, restarted>>

(* The sequencer finishes a run and writes upload_complete.json. *)
UploadComplete ==
    \E d \in RunDirs :
        /\ join(d, "upload_complete.json") \notin files
        /\ files' = files \cup {join(d, "upload_complete.json")}
        /\ touched' = TRUE
        /\ UNCHANGED <<other, probe, dirs, pc, subdirs, subdirs_to_analyze, idx, cmd, uuid_calls,
                       dispatched, invocations, built, analyzed_at_filter, restarted>>

(* A routine-qc pipeline, started by whatever means, creates its --outdir. *)
PipelineMkdirOutdir ==
    \E d \in RunDirs :
        /\ join(d, "RoutineQC") \notin dirs
        /\ dirs' = dirs \cup {join(d, "RoutineQC")}
        /\ touched' = TRUE
        /\ UNCHANGED <<other, probe, files, pc, subdirs, subdirs_to_analyze, idx, cmd, uuid_calls,
                       dispatched, invocations, built, analyzed_at_filter, restarted>>

-----------------------------------------------------------------------------
(* One run of the flow: the three tasks in dependency order. *)

(* The schedule fires and list_subdirectories(parent_dir) runs. *)
RunListSubdirectories ==
    /\ pc \in {"idle", "finished", "scan_failed"}
    /\ available
    /\ uuid_calls + MaxEntries <= MaxUuidCalls
    /\ \E s \in list_subdirectories(parent_dir) : subdirs' = s
    /\ subdirs_to_analyze' = <<>>
    /\ cmd' = <<>>
    /\ idx' = 1
    /\ pc' = "listed"
    /\ built' = <<>>
    /\ analyzed_at_filter' = {}
    /\ touched' = FALSE
    /\ UNCHANGED <<other, probe, dirs, files, uuid_calls, dispatched, invocations, restarted>>

(* filter_analyzed_runs(subdirs) *)
RunFilterAnalyzedRuns ==
    /\ pc = "listed"
    /\ subdirs_to_analyze' = filter_analyzed_runs(subdirs)
    /\ pc' = "filtered"
    /\ analyzed_at_filter' = { d \in RunDirs : join(d, "RoutineQC") \in dirs }
    /\ UNCHANGED <<other, probe, dirs, files, subdirs, idx, cmd, uuid_calls, dispatched,
                   invocations, built, touched, restarted>>

(* Mutant: the child also creates the work directory it names. *)
RunBuildWorkflowCommand_Makedirs ==
    /\ pc = "filtered"
    /\ idx <= Len(subdirs_to_analyze)
    /\ LET run_dir == subdirs_to_analyze[idx]
           c == build_workflow_command(run_dir, uuid_calls + 1)
       IN /\ cmd' = Append(cmd, c)
          /\ built' = Append(built, run_dir)
          /\ dirs' = dirs \cup {work_dir(run_dir, uuid4(uuid_calls + 1))}
          /\ invocations' = Append(invocations,
                 [ by |-> 1,
                   run_dir |-> run_dir,
                   cmd |-> c,
                   argv |-> Split(c),
                   uploaded |-> join(run_dir, "upload_complete.json") \in files ])
    /\ uuid_calls' = uuid_calls + 1
    /\ idx' = idx + 1
    /\ UNCHANGED <<other, probe, files, pc, subdirs, subdirs_to_analyze, dispatched,
                   analyzed_at_filter, touched, restarted>>

(* One child of build_workflow_command.map(subdirs_to_analyze). *)
RunBuildWorkflowCommand ==
    /\ pc = "filtered"
    /\ idx <= Len(subdirs_to_analyze)
    /\ LET run_dir == subdirs_to_analyze[idx]
           c == build_workflow_command(run_dir, uuid_calls + 1)
       IN /\ cmd' = Append(cmd, c)
          /\ built' = Append(built, run_dir)
          /\ invocations' = Append(invocations,
                 [ by |-> 1,
                   run_dir |-> run_dir,
                   cmd |-> c,
                   argv |-> Split(c),
                   uploaded |-> join(run_dir, "upload_complete.json") \in files ])
    /\ uuid_calls' = uuid_calls + 1
    /\ idx' = idx + 1
    /\ UNCHANGED <<other, probe, dirs, files, pc, subdirs, subdirs_to_analyze, dispatched,
                   analyzed_at_filter, touched, restarted>>

(* All mapped children are done: the flow run ends and waits for the next *)
(* tick of the schedule.  No task of the flow executes a command.         *)
FlowRunEnd ==
    /\ pc = "filtered"
    /\ idx > Len(subdirs_to_analyze)
    /\ pc' = "finished"
    /\ UNCHANGED <<other, probe, dirs, files, subdirs, subdirs_to_analyze, idx, cmd, uuid_calls,
                   dispatched, invocations, built, analyzed_at_filter, touched,
                   restarted>>

(* The scheduler process is killed and started again: main() builds the   *)
(* flow anew and nothing of the earlier process is kept.                  *)
Restart ==
    /\ pc # "idle"
    /\ pc' = "idle"
    /\ subdirs' = <<>>
    /\ subdirs_to_analyze' = <<>>
    /\ cmd' = <<>>
    /\ idx' = 1
    /\ built' = <<>>
    /\ analyzed_at_filter' = {}
    /\ restarted' = TRUE
    /\ UNCHANGED <<other, probe, dirs, files, uuid_calls, dispatched, invocations, touched>>

Next ==
    \/ SequencerMkdir
    \/ CreateFile
    \/ UploadComplete
    \/ PipelineMkdirOutdir
    \/ RunListSubdirectories
    \/ RunFilterAnalyzedRuns
    \/ RunBuildWorkflowCommand
    \/ FlowRunEnd
    \/ Restart

Spec == Init /\ [][Next]_vars

-----------------------------------------------------------------------------
(* A second scheduler process, started with the same arguments.  It runs  *)
(* the same flow on its own schedule; the two share the filesystem only.  *)

OtherListSubdirectories ==
    /\ other.pc \in {"idle", "finished"}
    /\ available
    /\ uuid_calls + MaxEntries <= MaxUuidCalls
    /\ \E s \in list_subdirectories(parent_dir) :
          other' = [pc |-> "listed", subdirs |-> s, subdirs_to_analyze |-> <<>>,
                    idx |-> 1, cmd |-> <<>>]
    /\ UNCHANGED <<probe, dirs, files, pc, subdirs, subdirs_to_analyze, idx, cmd,
                   uuid_calls, dispatched, invocations, built, analyzed_at_filter,
                   touched, restarted>>

OtherFilterAnalyzedRuns ==
    /\ other.pc = "listed"
    /\ other' = [other EXCEPT !.pc = "filtered",
                              !.subdirs_to_analyze = filter_analyzed_runs(other.subdirs)]
    /\ UNCHANGED <<probe, dirs, files, pc, subdirs, subdirs_to_analyze, idx, cmd,
                   uuid_calls, dispatched, invocations, built, analyzed_at_filter,
                   touched, restarted>>

OtherBuildWorkflowCommand ==
    /\ other.pc = "filtered"
    /\ other.idx <= Len(other.subdirs_to_analyze)
    /\ LET run_dir == other.subdirs_to_analyze[other.idx]
           c == build_workflow_command(run_dir, uuid_calls + 1)
       IN /\ other' = [other EXCEPT !.cmd = Append(other.cmd, c),
                                    !.idx = other.idx + 1]
          /\ invocations' = Append(invocations,
                 [ by |-> 2,
                   run_dir |-> run_dir,
                   cmd |-> c,
                   argv |-> Split(c),
                   uploaded |-> join(run_dir, "upload_complete.json") \in files ])
    /\ uuid_calls' = uuid_calls + 1
    /\ UNCHANGED <<probe, dirs, files, pc, subdirs, subdirs_to_analyze, idx, cmd,
                   dispatched, built, analyzed_at_filter, touched, restarted>>

OtherFlowRunEnd ==
    /\ other.pc = "filtered"
    /\ other.idx > Len(other.subdirs_to_analyze)
    /\ other' = [other EXCEPT !.pc = "finished"]
    /\ UNCHANGED <<probe, dirs, files, pc, subdirs, subdirs_to_analyze, idx, cmd,
                   uuid_calls, dispatched, invocations, built, analyzed_at_filter,
                   touched, restarted>>

(* A start on a directory that already holds up to k uploaded runs. *)
StartOnUploadedRuns(k) ==
    /\ \E N \in SUBSET EntryNames :
          /\ Cardinality(N) \in 1..k
          /\ dirs = {parent_dir} \cup { join(parent_dir, n) : n \in N }
          /\ files = { join(join(parent_dir, n), "upload_complete.json") : n \in N }
    /\ pc = "idle"
    /\ subdirs = <<>>
    /\ subdirs_to_analyze = <<>>
    /\ idx = 1
    /\ cmd = <<>>
    /\ uuid_calls = 0
    /\ dispatched = {}
    /\ invocations = <<>>
    /\ built = <<>>
    /\ analyzed_at_filter = {}
    /\ touched = FALSE
    /\ restarted = FALSE
    /\ other = OtherIdle
    /\ probe = NoProbe

(* The two processes are given one run fewer than a single scheduler:     *)
(* every run is now handled by two processes.                             *)
InitTwo == StartOnUploadedRuns(MaxEntries - 1)

NextTwo ==
    \/ PipelineMkdirOutdir
    \/ RunListSubdirectories
    \/ RunFilterAnalyzedRuns
    \/ RunBuildWorkflowCommand
    \/ FlowRunEnd
    \/ OtherListSubdirectories
    \/ OtherFilterAnalyzedRuns
    \/ OtherBuildWorkflowCommand
    \/ OtherFlowRunEnd

SpecTwo == InitTwo /\ [][NextTwo]_vars

-----------------------------------------------------------------------------
(* Failures.  Prefect turns an exception raised by a task into a Failed    *)
(* state of that task run: tasks downstream of it are not run, the other   *)
(* children of a mapped task are, and flow.run() goes on to the next tick  *)
(* of the schedule.                                                        *)

(* What a failed child leaves in the place of its result. *)
FailedResult == "<Failed>"

(* The watched directory is unmounted, removed or made unreadable. *)
RootUnavailable ==
    /\ available
    /\ dirs' = dirs \ {parent_dir}
    /\ touched' = TRUE
    /\ UNCHANGED <<other, probe, files, pc, subdirs, subdirs_to_analyze, idx, cmd,
                   uuid_calls, dispatched, invocations, built, analyzed_at_filter,
                   restarted>>

(* The watched directory is back. *)
RootAvailable ==
    /\ ~ available
    /\ dirs' = dirs \cup {parent_dir}
    /\ touched' = TRUE
    /\ UNCHANGED <<other, probe, files, pc, subdirs, subdirs_to_analyze, idx, cmd,
                   uuid_calls, dispatched, invocations, built, analyzed_at_filter,
                   restarted>>

(* Mutant: the exception of os.scandir ends the process. *)
RunListSubdirectoriesFails_Exit ==
    /\ pc \in {"idle", "finished", "scan_failed"}
    /\ ~ available
    /\ pc' = "exited"
    /\ UNCHANGED <<other, probe, dirs, files, subdirs, subdirs_to_analyze, idx, cmd,
                   uuid_calls, dispatched, invocations, built, analyzed_at_filter,
                   touched, restarted>>

(* The schedule fires and os.scandir(parent_dir) raises: the two tasks     *)
(* downstream are not run and the flow run ends.                           *)
RunListSubdirectoriesFails ==
    /\ pc \in {"idle", "finished", "scan_failed"}
    /\ ~ available
    /\ pc' = "scan_failed"
    /\ subdirs' = <<>>
    /\ subdirs_to_analyze' = <<>>
    /\ cmd' = <<>>
    /\ idx' = 1
    /\ built' = <<>>
    /\ analyzed_at_filter' = {}
    /\ touched' = FALSE
    /\ UNCHANGED <<other, probe, dirs, files, uuid_calls, dispatched, invocations,
                   restarted>>

(* One child of build_workflow_command.map raises: it builds no command,   *)
(* and the map goes on with the next element.                              *)
RunBuildWorkflowCommandFails ==
    /\ pc = "filtered"
    /\ idx <= Len(subdirs_to_analyze)
    /\ cmd' = Append(cmd, FailedResult)
    /\ idx' = idx + 1
    /\ UNCHANGED <<other, probe, dirs, files, pc, subdirs, subdirs_to_analyze,
                   uuid_calls, dispatched, invocations, built, analyzed_at_filter,
                   touched, restarted>>

NextErr ==
    \/ SequencerMkdir
    \/ UploadComplete
    \/ PipelineMkdirOutdir
    \/ RunListSubdirectories
    \/ RunFilterAnalyzedRuns
    \/ RunBuildWorkflowCommand
    \/ FlowRunEnd
    \/ RootUnavailable
    \/ RootAvailable
    \/ RunListSubdirectoriesFails
    \/ RunBuildWorkflowCommandFails

SpecErr == Init /\ [][NextErr]_vars

-----------------------------------------------------------------------------
(* Built commands that get executed: nextflow creates the directories the *)
(* command names, below the run directory.                                *)

(* The command line as the pipeline reads it. *)
HasFlag(toks, flag) == \E k \in 1..(Len(toks) - 1) : toks[k] = flag

(* The token that follows the first occurrence of flag, "" without one. *)
ArgAfter(toks, flag) ==
    IF HasFlag(toks, flag)
    THEN toks[(CHOOSE k \in 1..(Len(toks) - 1) :
                 toks[k] = flag /\ \A j \in 1..(k - 1) : toks[j] # flag) + 1]
    ELSE ""

(* The directories below the children of the watched directory. *)
NestedDirs == { d \in dirs : d # parent_dir /\ dirname(d) # parent_dir }

(* The pipeline of a built command creates its -work directory. *)
PipelineMkdirWork ==
    \E i \in 1..Len(invocations) :
        LET w == ArgAfter(invocations[i].argv, "-work")
        IN /\ w \notin dirs
           /\ dirs' = dirs \cup {w}
           /\ touched' = TRUE
           /\ UNCHANGED <<other, probe, files, pc, subdirs, subdirs_to_analyze, idx, cmd,
                          uuid_calls, dispatched, invocations, built,
                          analyzed_at_filter, restarted>>

(* The pipeline of a built command creates its --outdir directory. *)
PipelineMkdirOutdirOf ==
    \E i \in 1..Len(invocations) :
        LET o == ArgAfter(invocations[i].argv, "--outdir")
        IN /\ o \notin dirs
           /\ dirs' = dirs \cup {o}
           /\ touched' = TRUE
           /\ UNCHANGED <<other, probe, files, pc, subdirs, subdirs_to_analyze, idx, cmd,
                          uuid_calls, dispatched, invocations, built,
                          analyzed_at_filter, restarted>>

(* A file named upload_complete.json ends up in a nested directory. *)
NestedUploadComplete ==
    \E n \in NestedDirs :
        /\ join(n, "upload_complete.json") \notin files
        /\ files' = files \cup {join(n, "upload_complete.json")}
        /\ touched' = TRUE
        /\ UNCHANGED <<other, probe, dirs, pc, subdirs, subdirs_to_analyze, idx, cmd,
                       uuid_calls, dispatched, invocations, built,
                       analyzed_at_filter, restarted>>

InitPipeline == StartOnUploadedRuns(MaxEntries)

NextPipeline ==
    \/ CreateFile
    \/ PipelineMkdirWork
    \/ PipelineMkdirOutdirOf
    \/ NestedUploadComplete
    \/ RunListSubdirectories
    \/ RunFilterAnalyzedRuns
    \/ RunBuildWorkflowCommand
    \/ FlowRunEnd

SpecPipeline == InitPipeline /\ [][NextPipeline]_vars

-----------------------------------------------------------------------------
(* The classification of build_workflow_command on its own, over run IDs   *)
(* put together from well-formed and malformed segments.                   *)

DateSegments == {"201203", "20120", "2012034"}

InstrumentSegments == {"_M", "_VH", "_V", "_MH", "_N"}

SerialSegments == {"00325", "0032", "0032A"}

CounterSegments == {"_0123", "_1", "_"}

TailSegments == {"_000000000-A1B2C", "_AB12CD345", "_000000000",
                 "_000000000-A1B2", "_AB12CD34"}

RunIds ==
    { d \o i \o n \o c \o t : d \in DateSegments, i \in InstrumentSegments,
                              n \in SerialSegments, c \in CounterSegments,
                              t \in TailSegments }

(* What may follow a run ID in the name of a directory. *)
Suffixes == {"C", "5", "_copy", "-A1B2C", " (1)", "_VH00123_0045_AB12CD345"}

InitClassify ==
    /\ dirs = {parent_dir}
    /\ files = {}
    /\ pc = "idle"
    /\ subdirs = <<>>
    /\ subdirs_to_analyze = <<>>
    /\ idx = 1
    /\ cmd = <<>>
    /\ uuid_calls = 0
    /\ dispatched = {}
    /\ invocations = <<>>
    /\ built = <<>>
    /\ analyzed_at_filter = {}
    /\ touched = FALSE
    /\ restarted = FALSE
    /\ other = OtherIdle
    /\ \E id \in RunIds : probe = [stage |-> "input", run_id |-> id]

(* Lines 32-39 on run_id. *)
Classify ==
    /\ probe.stage = "input"
    /\ probe' = [stage |-> "classified",
                 run_id |-> probe.run_id,
                 miseq |-> re_match(miseq_regex, probe.run_id),
                 nextseq |-> re_match(nextseq_regex, probe.run_id),
                 instrument_type |-> instrument_type(probe.run_id)]
    /\ UNCHANGED <<other, dirs, files, pc, subdirs, subdirs_to_analyze, idx, cmd,
                   uuid_calls, dispatched, invocations, built, analyzed_at_filter,
                   touched, restarted>>

(* Lines 32-39 on run_id followed by further characters. *)
ClassifyExtended ==
    /\ probe.stage = "classified"
    /\ \E x \in Suffixes :
          probe' = [stage |-> "extended",
                    run_id |-> probe.run_id,
                    miseq |-> probe.miseq,
                    nextseq |-> probe.nextseq,
                    instrument_type |-> probe.instrument_type,
                    suffix |-> x,
                    extended_type |-> instrument_type(probe.run_id \o x)]
    /\ UNCHANGED <<other, dirs, files, pc, subdirs, subdirs_to_analyze, idx, cmd,
                   uuid_calls, dispatched, invocations, built, analyzed_at_filter,
                   touched, restarted>>

NextClassify ==
    \/ Classify
    \/ ClassifyExtended

SpecClassify == InitClassify /\ [][NextClassify]_vars

-----------------------------------------------------------------------------
(* Reading a built command back. *)

NoDuplicates(s) == \A i, j \in 1..Len(s) : s[i] = s[j] => i = j

CompletionMarked(d) == (d \o "/upload_complete.json") \in files

AnalysisMarked(d) == (d \o "/RoutineQC") \in dirs

(* The run directories a pass over the present filesystem is to handle. *)
EligibleNow == { d \in RunDirs : CompletionMarked(d) /\ ~ AnalysisMarked(d) }

InvocationsFor(d) == { i \in 1..Len(invocations) : invocations[i].run_dir = d }

-----------------------------------------------------------------------------
(* C1: no command is ever built for a run directory that lacks              *)
(* upload_complete.json at that time, and list_subdirectories never hands  *)
(* such a directory on.                                                    *)
C1_NoBuildWithoutCompletionMarker ==
    /\ \A i \in 1..Len(invocations) : invocations[i].uploaded
    /\ \A d \in Range(subdirs) \cup Range(subdirs_to_analyze) : CompletionMarked(d)

(* A flow run built a command while another run directory was incomplete.  *)
C1_Witness ==
    /\ pc = "finished"
    /\ ~ touched
    /\ Len(built) > 0
    /\ \E d \in RunDirs : ~ CompletionMarked(d)

(* C2: a run directory that has RoutineQC when the filter looks at it is    *)
(* excluded and gets no command in that flow run, with or without the      *)
(* completion marker, in the first and in every later flow run.            *)
C2_AnalyzedRunsExcluded ==
    \A d \in analyzed_at_filter :
        d \notin Range(subdirs_to_analyze) /\ d \notin Range(built)

(* A later flow run finished, having met a listed run with RoutineQC that  *)
(* had a command built earlier, and an unlisted one with RoutineQC.        *)
C2_Witness ==
    /\ pc = "finished"
    /\ \E d \in analyzed_at_filter \cap Range(subdirs) : InvocationsFor(d) # {}
    /\ \E d \in analyzed_at_filter : ~ CompletionMarked(d)

(* C3 as stated: no run directory ever has two commands built for it.       *)
C3_AtMostOncePerRunEver ==
    \A i, j \in 1..Len(invocations) :
        invocations[i].run_dir = invocations[j].run_dir => i = j

(* C3 as amended: within one flow run no run directory has two commands     *)
(* built for it.                                                           *)
C3_AtMostOncePerRunPerPass == NoDuplicates(built)

(* A run directory is built now that an earlier flow run built already.    *)
C3_Witness ==
    /\ Len(built) > 0
    /\ \E d \in Range(built) : Cardinality(InvocationsFor(d)) >= 2

(* C4: a flow run during which the filesystem did not change has built      *)
(* exactly one command for each run directory with upload_complete.json    *)
(* and without RoutineQC, and none for any other entry.                    *)
C4_OneCommandPerEligibleRun ==
    (pc = "finished" /\ ~ touched) =>
        /\ NoDuplicates(built)
        /\ Range(built) = EligibleNow
        /\ Len(cmd) = Cardinality(EligibleNow)

(* One complete run, one incomplete run, one command.                      *)
C4_Witness ==
    /\ pc = "finished"
    /\ ~ touched
    /\ Len(cmd) = 1
    /\ \E a, b \in RunDirs :
          /\ a # b
          /\ CompletionMarked(a) /\ ~ AnalysisMarked(a)
          /\ ~ CompletionMarked(b)
          /\ built = <<a>>

(* C5 as stated: when a flow run ends, every command it built has been      *)
(* executed.                                                               *)
C5_BuiltCommandsDispatched ==
    pc = "finished" => \A i \in 1..Len(cmd) : cmd[i] \in dispatched

(* C6 as stated: the value after --instrument_type is miseq, nextseq or     *)
(* unknown, according to which pattern the run ID matches at its start.    *)
C6_InstrumentTypeOneOfThree ==
    \A i \in 1..Len(invocations) :
        LET run_id == basename(invocations[i].run_dir)
            value == ArgAfter(invocations[i].argv, "--instrument_type")
        IN /\ value \in {"miseq", "nextseq", "unknown"}
           /\ value = "miseq" <=> re_match(miseq_regex, run_id)
           /\ value = "nextseq" <=>
                 (~ re_match(miseq_regex, run_id) /\ re_match(nextseq_regex, run_id))

(* C7: the -work paths of all commands ever built are pairwise distinct,    *)
(* each of them <run_dir>/work-<uuid>.                                     *)
C7_WorkDirsDistinct ==
    LET w == [ i \in 1..Len(invocations) |->
                 ArgAfter(invocations[i].argv, "-work") ]
    IN \A i \in 1..Len(invocations) :
          LET prefix == invocations[i].run_dir \o "/work-"
          IN /\ Len(w[i]) = Len(prefix) + 36
             /\ SubSeq(w[i], 1, Len(prefix)) = prefix
             /\ \A j \in 1..Len(invocations) : i # j => w[i] # w[j]

(* Three commands, two of them for the same run directory.                 *)
C7_Witness ==
    /\ Len(invocations) >= 3
    /\ \E i, j, k \in 1..Len(invocations) :
          /\ i # j
          /\ invocations[i].run_dir = invocations[j].run_dir
          /\ invocations[k].run_dir # invocations[i].run_dir

(* C8 as stated: split on whitespace, a built command is the template,      *)
(* token by token.                                                         *)
C8_CommandFollowsTemplate ==
    \A i \in 1..Len(invocations) :
        LET run_dir == invocations[i].run_dir
            t == invocations[i].argv
        IN /\ Len(t) = 17
           /\ SubSeq(t, 1, 10) = << "nextflow", "run", "BCCDC-PHL/routine-qc",
                                    "-profile", "conda", "--cache", "~/.conda/envs",
                                    "-r", "v0.3.2", "--run_dir" >>
           /\ t[11] = run_dir
           /\ t[12] = "--instrument_type"
           /\ t[14] = "-work"
           /\ SubSeq(t[15], 1, Len(run_dir) + 6) = run_dir \o "/work-"
           /\ t[16] = "--outdir"
           /\ t[17] = run_dir \o "/RoutineQC"

(* C9: two commands built for the same run directory have the same tokens   *)
(* except for the value of -work, and there they differ only after         *)
(* <run_dir>/work-.                                                        *)
C9_SameRunDiffersOnlyInUuid ==
    \A i, j \in 1..Len(invocations) :
        (i < j /\ invocations[i].run_dir = invocations[j].run_dir) =>
            LET a == invocations[i].argv
                b == invocations[j].argv
                n == Len(invocations[i].run_dir) + 6
            IN /\ Len(a) = Len(b)
               /\ \A k \in 1..Len(a) :
                     a[k] # b[k] =>
                        /\ k > 1
                        /\ a[k - 1] = "-work" /\ b[k - 1] = "-work"
                        /\ Len(a[k]) = Len(b[k])
                        /\ SubSeq(a[k], 1, n) = SubSeq(b[k], 1, n)

(* Two commands for one run directory, built by different flow runs.       *)
C9_Witness ==
    \E i, j \in 1..Len(invocations) :
        /\ i # j
        /\ invocations[i].run_dir = invocations[j].run_dir
        /\ invocations[i].cmd # invocations[j].cmd

(* C10: the runs the filter hands on are determined by the markers on the   *)
(* filesystem alone: with the filesystem unchanged since the listing they  *)
(* are the run directories with upload_complete.json and without           *)
(* RoutineQC, whatever was built before and whether or not the scheduler   *)
(* was restarted.                                                          *)
C10_EligibleSetFromMarkersOnly ==
    (pc \in {"filtered", "finished"} /\ ~ touched) =>
        /\ Range(subdirs_to_analyze) = EligibleNow
        /\ Len(subdirs_to_analyze) = Cardinality(EligibleNow)

(* After a restart the filter hands on a run an earlier flow run built.    *)
C10_Witness ==
    /\ pc = "filtered"
    /\ ~ touched
    /\ restarted
    /\ \E d \in Range(subdirs_to_analyze) : InvocationsFor(d) # {}

(* C11: a step of the scheduler (one that moves its pc, its task results, *)
(* its UUID count or the second scheduler) leaves the directories and the *)
(* files as they are; so whatever creates a run directory or a marker is  *)
(* the sequencer or the pipeline.                                         *)
C11_CoreLeavesFilesystemAlone ==
    [][ (\/ pc' # pc
         \/ subdirs' # subdirs
         \/ subdirs_to_analyze' # subdirs_to_analyze
         \/ idx' # idx
         \/ cmd' # cmd
         \/ uuid_calls' # uuid_calls
         \/ other' # other)
        => UNCHANGED <<dirs, files>> ]_vars

(* A flow run has built commands, and neither the work directory nor the  *)
(* output directory named in them exists.                                 *)
C11_Witness ==
    /\ pc = "finished"
    /\ Len(built) > 0
    /\ \A i \in 1..Len(invocations) :
          /\ ArgAfter(invocations[i].argv, "-work") \notin dirs
          /\ ArgAfter(invocations[i].argv, "--outdir") \notin dirs

(* C12 as stated: when a flow run ends in which a child of the map failed, *)
(* every other run handed on by the filter has its command built and      *)
(* executed.                                                              *)
C12_OtherRunsBuiltAndDispatched ==
    (pc = "finished" /\ FailedResult \in Range(cmd)) =>
        \A k \in 1..Len(subdirs_to_analyze) :
            cmd[k] # FailedResult =>
                /\ subdirs_to_analyze[k] \in Range(built)
                /\ cmd[k] \in dispatched

(* The part of C12 about building alone, which the map does provide.      *)
C12_OtherRunsBuilt ==
    (pc = "finished" /\ FailedResult \in Range(cmd)) =>
        /\ Len(cmd) = Len(subdirs_to_analyze)
        /\ \A k \in 1..Len(subdirs_to_analyze) :
              cmd[k] # FailedResult => subdirs_to_analyze[k] \in Range(built)

(* C13: the scheduler process never exits; a flow run whose listing       *)
(* failed has built no command; and from there the next tick of the       *)
(* schedule starts a flow run again, which lists the directory if it is   *)
(* back.                                                                  *)
C13_ScanFailureNotFatal ==
    /\ pc \in {"idle", "listed", "filtered", "finished", "scan_failed"}
    /\ pc = "scan_failed" =>
          /\ cmd = <<>> /\ built = <<>> /\ subdirs_to_analyze = <<>>
          /\ ~ available => ENABLED RunListSubdirectoriesFails
          /\ (available /\ uuid_calls + MaxEntries <= MaxUuidCalls) =>
                ENABLED RunListSubdirectories

(* The listing failed while a complete run without RoutineQC is on disk,  *)
(* after an earlier flow run built a command.                             *)
C13_Witness ==
    /\ pc = "scan_failed"
    /\ ~ available
    /\ EligibleNow # {}
    /\ Len(invocations) > 0

(* C14: whenever a flow run ends, every run directory it listed that has  *)
(* no RoutineQC (and so never had one) was built in this flow run, however *)
(* many commands were built for it before, and the work directory of the  *)
(* new command is none of the earlier ones.                               *)
C14_UnanalyzedRunRebuiltEveryPass ==
    pc = "finished" =>
        \A d \in Range(subdirs) :
            ~ AnalysisMarked(d) =>
                /\ d \in Range(built)
                /\ \E last \in InvocationsFor(d) :
                      \A i \in InvocationsFor(d) \ {last} :
                          /\ i < last
                          /\ ArgAfter(invocations[i].argv, "-work")
                                # ArgAfter(invocations[last].argv, "-work")

(* After a restart a flow run has built a run again that still has no     *)
(* RoutineQC.                                                             *)
C14_Witness ==
    /\ pc = "finished"
    /\ restarted
    /\ \E d \in Range(built) :
          ~ AnalysisMarked(d) /\ Cardinality(InvocationsFor(d)) >= 2

(* The commands the second scheduler built for d in its present flow run. *)
OtherBuiltFor(d) ==
    { i \in InvocationsFor(d) :
        invocations[i].by = 2 /\ invocations[i].cmd \in Range(other.cmd) }

(* C15: the analysis marker is all that keeps a scheduler from building:   *)
(* when the flow runs of two schedulers have both ended, every run        *)
(* directory both had listed and that has no RoutineQC was built by both, *)
(* whatever the other one had built by then.                              *)
C15_NothingPreventsDoubleBuild ==
    (pc = "finished" /\ other.pc = "finished") =>
        \A d \in Range(subdirs) \cap Range(other.subdirs) :
            ~ AnalysisMarked(d) => (d \in Range(built) /\ OtherBuiltFor(d) # {})

(* Both schedulers were handed the same run by their filters and both     *)
(* have built a command for it, and there is still no RoutineQC.          *)
C15_Witness ==
    \E d \in Range(subdirs_to_analyze) \cap Range(other.subdirs_to_analyze) :
        /\ ~ AnalysisMarked(d)
        /\ d \in Range(built)
        /\ OtherBuiltFor(d) # {}

(* C16: no run ID matches both instrument patterns at its start, and a run *)
(* ID that matches one of them keeps its instrument type whatever          *)
(* characters are appended to it.                                          *)
C16_PatternsExclusiveAndPrefix ==
    /\ probe.stage \in {"classified", "extended"} =>
          ~ (probe.miseq /\ probe.nextseq)
    /\ (probe.stage = "extended" /\ probe.instrument_type # None) =>
          probe.extended_type = probe.instrument_type

(* A NextSeq run ID whose tail reads like the tail of a MiSeq run ID was   *)
(* classified, and again with characters appended.                         *)
C16_Witness ==
    /\ probe.stage = "extended"
    /\ probe.nextseq
    /\ probe.instrument_type = Str("nextseq")
    /\ probe.run_id = "201203_VH00325_0123_000000000-A1B2C"
    /\ probe.suffix = "_copy"

(* C17: list_subdirectories returns immediate children of the watched      *)
(* directory that are directories and nothing else: no plain file and no   *)
(* directory nested below a run directory, whatever it contains; so no     *)
(* command is built for any of those either.                               *)
C17_OnlyImmediateChildDirectories ==
    /\ \A k \in 1..Len(subdirs) :
          /\ dirname(subdirs[k]) = parent_dir
          /\ subdirs[k] \in dirs
          /\ subdirs[k] \notin files
    /\ \A i \in 1..Len(invocations) : dirname(invocations[i].run_dir) = parent_dir

(* A listing has just been made while the watched directory held a plain  *)
(* file and a run directory held a work directory and a RoutineQC         *)
(* directory, created by pipelines, one of them with upload_complete.json.*)
C17_Witness ==
    /\ pc = "listed"
    /\ ~ touched
    /\ subdirs # <<>>
    /\ join(parent_dir, "SampleSheet.csv") \in files
    /\ \E i \in 1..Len(invocations) :
          /\ ArgAfter(invocations[i].argv, "-work") \in dirs
          /\ ArgAfter(invocations[i].argv, "--outdir") \in dirs
          /\ join(ArgAfter(invocations[i].argv, "-work"), "upload_complete.json") \in files

(* Has a pipeline of a command built for d created its --outdir? *)
OutdirCreated(d) ==
    \E i \in InvocationsFor(d) : ArgAfter(invocations[i].argv, "--outdir") \in dirs

(* C18: the --outdir of a built command is the path the filter tests and   *)
(* its -work is not: the filter rejects a run directory exactly when the   *)
(* pipeline of one of its commands has created its --outdir, whatever work *)
(* directories exist, and a flow run that filters afterwards hands on      *)
(* exactly the listed runs without such an --outdir.                       *)
C18_OutdirIsWhatTheFilterTests ==
    /\ \A i \in 1..Len(invocations) :
          /\ ArgAfter(invocations[i].argv, "--outdir") # ""
          /\ ArgAfter(invocations[i].argv, "-work") # ""
          /\ \A j \in 1..Len(invocations) :
                ArgAfter(invocations[i].argv, "-work")
                    # ArgAfter(invocations[j].argv, "--outdir")
    /\ \A d \in RunDirs : filter_func(d) <=> ~ OutdirCreated(d)
    /\ (pc \in {"filtered", "finished"} /\ ~ touched) =>
          \A d \in Range(subdirs) :
              d \in Range(subdirs_to_analyze) <=> ~ OutdirCreated(d)

(* A flow run has filtered out a listed run whose earlier command had its *)
(* --outdir and its -work directory created by the pipeline.              *)
C18_Witness ==
    /\ pc = "filtered"
    /\ ~ touched
    /\ \E d \in Range(subdirs) \ Range(subdirs_to_analyze) :
          \E i \in InvocationsFor(d) :
              /\ ArgAfter(invocations[i].argv, "--outdir") \in dirs
              /\ ArgAfter(invocations[i].argv, "-work") \in dirs

====
